---- MODULE Spec2Model ----
(***************************************************************************)
(* Model of the hazard/prediction trackers of the cva6 performance model   *)
(* (perf-model/cycle_count.py): IqLen, Ras, Bht and FusBusy, and of the    *)
(* run of main over a loaded trace (filter_timed_part, print_stats).       *)
(*                                                                         *)
(* Each tracker is an object with its own fields; a caller drives it by    *)
(* calling its methods.  There is one action per method.  Besides the      *)
(* objects' fields the state holds what the caller observes: the last      *)
(* calls made on a tracker and the value the last query returned.          *)
(***************************************************************************)
EXTENDS Integers, Sequences, FiniteSets, TLC

VARIABLES
    \* IqLen: iq_op is the last call made on the queue and iq_instr its
    \* instruction; iq_jumped tells that jump() ran since the last fetch() and
    \* iq_paid how many times it subtracted a fetch-width chunk since then
    fetch_size, len, new_fetch, iq_op, iq_instr, iq_jumped, iq_paid,
    \* Ras: ras_d is the depth the constructor was given, ras_hist the last
    \* three calls made on the stack (a read with the value it returned)
    ras_d, depth, stack, last_dropped, ras_hist,
    \* Bht: bht_last is the last call made on the table, with the number of
    \* times in a row it was made; bht_trained the slots resolve was applied to
    contents, bht_last, bht_trained,
    \* FusBusy: issued lists the units issued to since the last cycle(), fus_op
    \* is the outcome of the last call
    has_alu2, alu, mul, branch, ldu, stu, alu2, issued_mul, issued, fus_op,
    \* main: all_instructions is the loaded trace (model.instr_queue), pos the
    \* number of iterations filter_timed_part's loop has made, accepting and
    \* filtered its locals, n_cycles the local of print_stats, printed the names
    \* print_data wrote, pc where the run is or how it ended
    all_instructions, pos, accepting, filtered, n_cycles, printed, pc

iq_vars == <<fetch_size, len, new_fetch, iq_op, iq_instr, iq_jumped, iq_paid>>
ras_vars == <<ras_d, depth, stack, last_dropped, ras_hist>>
bht_vars == <<contents, bht_last, bht_trained>>
fus_flags == <<alu, mul, branch, ldu, stu, alu2, issued_mul>>
fus_vars == <<has_alu2, fus_flags, issued, fus_op>>
main_vars == <<all_instructions, pos, accepting, filtered, n_cycles, printed, pc>>
vars == <<iq_vars, ras_vars, bht_vars, fus_vars, main_vars>>
other_than_iq == <<ras_vars, bht_vars, fus_vars, main_vars>>
other_than_ras == <<iq_vars, bht_vars, fus_vars, main_vars>>
other_than_bht == <<iq_vars, ras_vars, fus_vars, main_vars>>
other_than_fus == <<iq_vars, ras_vars, bht_vars, main_vars>>
other_than_main == <<iq_vars, ras_vars, bht_vars, fus_vars>>

(***************************************************************************)
(* Bounds of the model.                                                    *)
(***************************************************************************)
\* largest fetch size requested from the IqLen constructor
MaxFetchReq == 16
\* fetch() is not called once the queue holds more than this many bytes
MaxLen == 32
\* instruction addresses are the even numbers of 0..MaxAddr
MaxAddr == 14

(***************************************************************************)
(* Instructions, as the trackers see them: the decode collaborator (isa)   *)
(* gives the size (2 for a compressed instruction, 4 otherwise) and the    *)
(* classification.                                                         *)
(***************************************************************************)
IqInstrs ==
    [address : {a \in 0..MaxAddr : a % 2 = 0}, size : {2, 4}, is_jump : BOOLEAN]

\* the caller's record of a call that takes no instruction
NoInstr == [address |-> 0, size |-> 2, is_jump |-> FALSE]

size(instr) == instr.size

is_compressed(instr) == instr.size = 2

is_jump(instr) == instr.is_jump

\* Instruction.next_addr
next_addr(instr) == instr.address + size(instr)

(***************************************************************************)
(* IqLen                                                                   *)
(***************************************************************************)
\* __init__: the smallest power of two >= the requested size, at least 4
RECURSIVE round_fetch_size(_, _)
round_fetch_size(fs, requested) ==
    IF fs < requested THEN round_fetch_size(fs * 2, requested) ELSE fs

\* addr & (fetch_size - 1); fetch_size is a power of two, and Python's & on a
\* negative integer is two's complement, so the result is the floored modulus
addr_index(addr) == addr % fetch_size

is_crossword(instr) ==
    LET is_last == addr_index(instr.address) = fetch_size - 2
    IN  is_last /\ ~is_compressed(instr)

\* a truncation that forgets to wrap a negative amount
truncate_no_wrap(l, index) ==
    LET occupancy == fetch_size - addr_index(l)
        to_remove == index - occupancy
    IN  l - to_remove

\* the length _truncate(index) leaves, from length l
truncate(l, index) ==
    LET occupancy == fetch_size - addr_index(l)
        to_remove == index - occupancy
    IN  IF to_remove < 0 THEN l - (to_remove + fetch_size) ELSE l - to_remove

has(instr) ==
    LET length == IF is_crossword(instr) THEN len - (fetch_size - 2) ELSE len
    IN  length >= size(instr)

\* the length and pending mark jump() leaves, from length l and mark nf
jump_len(l, nf) == truncate(IF nf THEN l - fetch_size ELSE l, 0)

IqInit ==
    /\ \E requested \in 1..MaxFetchReq : fetch_size = round_fetch_size(4, requested)
    /\ len = fetch_size
    /\ new_fetch = TRUE
    /\ iq_op = "init"
    /\ iq_instr = NoInstr
    /\ iq_jumped = FALSE
    /\ iq_paid = 0

fetch ==
    /\ len + fetch_size <= MaxLen
    /\ len' = len + fetch_size
    /\ new_fetch' = TRUE
    /\ iq_op' = "fetch"
    /\ iq_instr' = NoInstr
    /\ iq_jumped' = FALSE
    /\ iq_paid' = 0
    /\ UNCHANGED <<fetch_size, other_than_iq>>

\* a flush that refills the queue as the constructor does
flush_refills ==
    /\ len' = fetch_size
    /\ new_fetch' = FALSE
    /\ iq_op' = "flush"
    /\ iq_instr' = NoInstr
    /\ UNCHANGED <<fetch_size, iq_jumped, iq_paid, other_than_iq>>

flush ==
    /\ len' = 0
    /\ new_fetch' = FALSE
    /\ iq_op' = "flush"
    /\ iq_instr' = NoInstr
    /\ UNCHANGED <<fetch_size, iq_jumped, iq_paid, other_than_iq>>

\* a jump that leaves the fresh fetch pending
jump_keeps_pending ==
    /\ len' = jump_len(len, new_fetch)
    /\ UNCHANGED new_fetch
    /\ iq_op' = "jump"
    /\ iq_instr' = NoInstr
    /\ iq_jumped' = TRUE
    /\ iq_paid' = IF new_fetch THEN iq_paid + 1 ELSE iq_paid
    /\ UNCHANGED <<fetch_size, other_than_iq>>

jump ==
    /\ len' = jump_len(len, new_fetch)
    /\ new_fetch' = FALSE
    /\ iq_op' = "jump"
    /\ iq_instr' = NoInstr
    /\ iq_jumped' = TRUE
    /\ iq_paid' = IF new_fetch THEN iq_paid + 1 ELSE iq_paid
    /\ UNCHANGED <<fetch_size, other_than_iq>>

\* the scheduler removes an instruction only once has(instr) holds
remove(instr) ==
    /\ has(instr)
    /\ LET l == truncate(len - size(instr), addr_index(next_addr(instr)))
       IN  IF is_jump(instr)
           THEN /\ len' = jump_len(l, new_fetch)
                /\ new_fetch' = FALSE
                /\ iq_jumped' = TRUE
                /\ iq_paid' = IF new_fetch THEN iq_paid + 1 ELSE iq_paid
           ELSE len' = l /\ UNCHANGED <<new_fetch, iq_jumped, iq_paid>>
    /\ iq_op' = "remove"
    /\ iq_instr' = instr
    /\ UNCHANGED <<fetch_size, other_than_iq>>

(***************************************************************************)
(* Ras                                                                     *)
(***************************************************************************)
\* largest depth given to the Ras constructor
MaxDepth == 3
\* pushed addresses are the even numbers of 0..MaxRasAddr
MaxRasAddr == 4

\* the value of a last_dropped register that holds no address
None == -1

RasAddrs == {a \in 0..MaxRasAddr : a % 2 = 0}

\* instructions given to Ras.resolve: is_ret() and is_call() are independent
RasInstrs == [address : {2}, size : {2, 4}, is_ret : BOOLEAN, is_call : BOOLEAN]

is_ret(instr) == instr.is_ret

is_call(instr) == instr.is_call

\* the caller's record of its last three calls
Keep3(h) == IF Len(h) > 3 THEN Tail(h) ELSE h

Call(op, arg) == [op |-> op, arg |-> arg]

\* __init__: self.depth
init_depth(d) == d - 1

\* a push that forgets the newest entry when full
pushed_forgets_newest(s, addr) ==
    LET t == Append(s, addr)
    IN  IF Len(t) > depth THEN SubSeq(t, 1, Len(t) - 1) ELSE t

\* the stack push(addr) leaves, from stack s
pushed(s, addr) ==
    LET t == Append(s, addr)
    IN  IF Len(t) > depth THEN Tail(t) ELSE t

\* the stack and the last_dropped register drop() leaves, from stack s
dropped_stack(s) == IF Len(s) > 0 THEN SubSeq(s, 1, Len(s) - 1) ELSE s

\* a drop that takes the oldest entry instead of the top
dropped_value_oldest(s) == IF Len(s) > 0 THEN s[1] ELSE None

\* a drop that keeps the register when the stack is empty
dropped_value_keeps(s) == IF Len(s) > 0 THEN s[Len(s)] ELSE last_dropped

dropped_value(s) == IF Len(s) > 0 THEN s[Len(s)] ELSE None

\* what read() returns
read_value == IF last_dropped # None THEN last_dropped ELSE None

RasInit ==
    /\ ras_d \in 1..MaxDepth
    /\ depth = init_depth(ras_d)
    /\ stack = <<>>
    /\ last_dropped = None
    /\ ras_hist = <<>>

push(addr) ==
    /\ stack' = pushed(stack, addr)
    /\ ras_hist' = Keep3(Append(ras_hist, Call("push", addr)))
    /\ UNCHANGED <<ras_d, depth, last_dropped, other_than_ras>>

drop ==
    /\ stack' = dropped_stack(stack)
    /\ last_dropped' = dropped_value(stack)
    /\ ras_hist' = Keep3(Append(ras_hist, Call("drop", None)))
    /\ UNCHANGED <<ras_d, depth, other_than_ras>>

\* a read that consumes the register
read_consumes ==
    /\ ras_hist' = Keep3(Append(ras_hist, Call("read", read_value)))
    /\ last_dropped' = None
    /\ UNCHANGED <<ras_d, depth, stack, other_than_ras>>

read ==
    /\ ras_hist' = Keep3(Append(ras_hist, Call("read", read_value)))
    /\ UNCHANGED <<ras_d, depth, stack, last_dropped, other_than_ras>>

resolve_name(instr) ==
    IF is_ret(instr)
    THEN (IF is_call(instr) THEN "resolve_ret_call" ELSE "resolve_ret")
    ELSE (IF is_call(instr) THEN "resolve_call" ELSE "resolve")

\* a resolve that pushes the return address before it drops
resolve_push_first(instr) ==
    /\ LET s1 == IF is_call(instr) THEN pushed(stack, next_addr(instr)) ELSE stack
       IN  /\ stack' = IF is_ret(instr) THEN dropped_stack(s1) ELSE s1
           /\ last_dropped' = IF is_ret(instr) THEN dropped_value(s1) ELSE last_dropped
    /\ ras_hist' = Keep3(Append(ras_hist, Call(resolve_name(instr), None)))
    /\ UNCHANGED <<ras_d, depth, other_than_ras>>

\* resolve(instr): drop() for a ret, then push(next_addr) for a call
resolve(instr) ==
    /\ LET s1 == IF is_ret(instr) THEN dropped_stack(stack) ELSE stack
       IN  stack' = IF is_call(instr) THEN pushed(s1, next_addr(instr)) ELSE s1
    /\ last_dropped' = IF is_ret(instr) THEN dropped_value(stack) ELSE last_dropped
    /\ ras_hist' = Keep3(Append(ras_hist, Call(resolve_name(instr), None)))
    /\ UNCHANGED <<ras_d, depth, other_than_ras>>

\* the Ras a Model constructs: Ras(debug=debug), depth=2
RasConstructed ==
    /\ ras_d = 2
    /\ depth = init_depth(ras_d)
    /\ stack = <<>>
    /\ last_dropped = None
    /\ ras_hist = <<>>

\* the IqLen a Model constructs with issue=1: IqLen(4)
IqConstructed ==
    /\ fetch_size = round_fetch_size(4, 4)
    /\ len = fetch_size
    /\ new_fetch = TRUE
    /\ iq_op = "init"
    /\ iq_instr = NoInstr
    /\ iq_jumped = FALSE
    /\ iq_paid = 0

(***************************************************************************)
(* Bht                                                                     *)
(***************************************************************************)
\* largest number of entries given to the Bht constructor
MaxEntries == 2
\* branch addresses are 0..MaxBhtAddr
MaxBhtAddr == 5
\* consecutive identical calls are counted up to MaxRun
MaxRun == 4

BhtAddrs == 0..MaxBhtAddr

\* Bht.Entry()
Entry == [valid |-> FALSE, sat_counter |-> 0]

\* len(self.contents)
table_size == Cardinality(DOMAIN contents)

\* an index that forgets to drop the low address bit
index_no_shift(addr) == addr % table_size

\* _index: (addr >> 1) % len(self.contents)
index(addr) == (addr \div 2) % table_size

\* a counter that wraps instead of saturating
resolved_counter_wraps(c, taken) == IF taken THEN (c + 1) % 4 ELSE (c + 3) % 4

\* the counter resolve leaves, from counter c
resolved_counter(c, taken) ==
    IF taken
    THEN (IF c < 3 THEN c + 1 ELSE c)
    ELSE (IF c > 0 THEN c - 1 ELSE c)

\* what predict(addr) returns: True, False or None
predict_value(addr) ==
    LET entry == contents[index(addr)]
    IN  IF entry.valid
        THEN (IF entry.sat_counter >= 2 THEN "taken" ELSE "not_taken")
        ELSE "unknown"

BhtCall(op, addr, taken, res) ==
    [op |-> op, addr |-> addr, taken |-> taken, res |-> res]

\* how many times in a row the call c has now been made
run_length(c) ==
    IF bht_last.call = c
    THEN (IF bht_last.n < MaxRun THEN bht_last.n + 1 ELSE MaxRun)
    ELSE 1

BhtInit ==
    /\ \E entries \in 1..MaxEntries : contents = [i \in 0..(entries - 1) |-> Entry]
    /\ bht_last = [call |-> BhtCall("init", 0, FALSE, "none"), n |-> 1]
    /\ bht_trained = {}

predict(addr) ==
    /\ LET c == BhtCall("predict", addr, FALSE, predict_value(addr))
       IN  bht_last' = [call |-> c, n |-> run_length(c)]
    /\ UNCHANGED <<contents, bht_trained, other_than_bht>>

bht_resolve(addr, taken) ==
    /\ contents' =
         [contents EXCEPT ![index(addr)] =
            [valid |-> TRUE, sat_counter |-> resolved_counter(@.sat_counter, taken)]]
    /\ LET c == BhtCall("resolve", addr, taken, "none")
       IN  bht_last' = [call |-> c, n |-> run_length(c)]
    /\ bht_trained' = bht_trained \cup {(addr \div 2) % table_size}
    /\ UNCHANGED other_than_bht

\* the Bht a Model constructs: Bht(), 128 entries
DefaultEntries == 128

BhtConstructed ==
    /\ contents = [i \in 0..(DefaultEntries - 1) |-> Entry]
    /\ bht_last = [call |-> BhtCall("init", 0, FALSE, "none"), n |-> 1]
    /\ bht_trained = {}

(***************************************************************************)
(* FusBusy                                                                 *)
(***************************************************************************)
\* issue() is not called once this many instructions were issued in a cycle
MaxIssues == 5

Fu == {"ALU", "MUL", "BRANCH", "LDU", "STU"}

\* the instruction classes the decode collaborator tells apart
FuInstrs == [kind : {"branch", "regjump", "muldiv", "load", "store", "other"}]

is_branch(instr) == instr.kind = "branch"

is_regjump(instr) == instr.kind = "regjump"

is_muldiv(instr) == instr.kind = "muldiv"

is_load(instr) == instr.kind = "load"

is_store(instr) == instr.kind = "store"

to_fu(instr) ==
    IF is_branch(instr) \/ is_regjump(instr) THEN "BRANCH"
    ELSE IF is_muldiv(instr) THEN "MUL"
    ELSE IF is_load(instr) THEN "LDU"
    ELSE IF is_store(instr) THEN "STU"
    ELSE "ALU"

\* an ALU that counts as ready whenever a second ALU exists
is_ready_with_any_alu2(fu) ==
    CASE fu = "ALU" -> has_alu2 \/ ~alu
      [] fu = "MUL" -> ~mul
      [] fu = "BRANCH" -> ~branch
      [] fu = "LDU" -> ~ldu
      [] fu = "STU" -> ~stu

\* a second ALU that is taken for free whenever it exists
alu2_ready_ignores_busy == has_alu2

alu2_ready == has_alu2 /\ ~alu2

is_ready(fu) ==
    CASE fu = "ALU" -> alu2_ready \/ ~alu
      [] fu = "MUL" -> ~mul
      [] fu = "BRANCH" -> ~branch
      [] fu = "LDU" -> ~ldu
      [] fu = "STU" -> ~stu

is_ready_for(instr) == is_ready(to_fu(instr))

FusInit ==
    /\ has_alu2 \in BOOLEAN
    /\ alu = FALSE
    /\ mul = FALSE
    /\ branch = FALSE
    /\ ldu = FALSE
    /\ stu = FALSE
    /\ alu2 = FALSE
    /\ issued_mul = FALSE
    /\ issued = <<>>
    /\ fus_op = "init"

issue_mul ==
    /\ mul' = TRUE
    /\ issued_mul' = TRUE
    /\ fus_op' = "issue"
    /\ UNCHANGED <<alu, branch, ldu, stu, alu2>>

\* `assert not self.alu` raises and leaves the flags as they were
issue_alu ==
    IF ~alu2_ready
    THEN IF alu
         THEN fus_op' = "assert" /\ UNCHANGED fus_flags
         ELSE /\ alu' = TRUE
              /\ branch' = TRUE
              /\ fus_op' = "issue"
              /\ UNCHANGED <<mul, ldu, stu, alu2, issued_mul>>
    ELSE /\ alu2' = TRUE
         /\ fus_op' = "issue"
         /\ UNCHANGED <<alu, mul, branch, ldu, stu, issued_mul>>

\* a branch that leaves the store unit free
issue_branch_allows_store ==
    /\ alu' = TRUE
    /\ branch' = TRUE
    /\ fus_op' = "issue"
    /\ UNCHANGED <<mul, ldu, stu, alu2, issued_mul>>

issue_branch ==
    /\ alu' = TRUE
    /\ branch' = TRUE
    /\ stu' = TRUE
    /\ fus_op' = "issue"
    /\ UNCHANGED <<mul, ldu, alu2, issued_mul>>

\* a load that leaves the store unit free
issue_ldu_allows_store ==
    /\ ldu' = TRUE
    /\ fus_op' = "issue"
    /\ UNCHANGED <<alu, mul, branch, stu, alu2, issued_mul>>

issue_ldu ==
    /\ ldu' = TRUE
    /\ stu' = TRUE
    /\ fus_op' = "issue"
    /\ UNCHANGED <<alu, mul, branch, alu2, issued_mul>>

issue_stu ==
    /\ stu' = TRUE
    /\ ldu' = TRUE
    /\ fus_op' = "issue"
    /\ UNCHANGED <<alu, mul, branch, alu2, issued_mul>>

\* issue(instr): the handler of the instruction's unit; the caller's list of
\* the cycle's issues grows unless the handler raised
issue(instr) ==
    /\ Len(issued) < MaxIssues
    /\ CASE to_fu(instr) = "ALU" -> issue_alu
         [] to_fu(instr) = "MUL" -> issue_mul
         [] to_fu(instr) = "BRANCH" -> issue_branch
         [] to_fu(instr) = "LDU" -> issue_ldu
         [] to_fu(instr) = "STU" -> issue_stu
    /\ issued' = IF fus_op' = "assert" THEN issued ELSE Append(issued, to_fu(instr))
    /\ UNCHANGED <<has_alu2, other_than_fus>>

\* the scheduler's protocol: issue(instr) only once is_ready_for(instr) holds
issue_when_ready(instr) ==
    /\ is_ready_for(instr)
    /\ issue(instr)

\* a cycle() that leaves the multiply-issued flag set
cycle_keeps_issued_mul ==
    /\ alu' = issued_mul
    /\ mul' = FALSE
    /\ branch' = issued_mul
    /\ ldu' = FALSE
    /\ stu' = FALSE
    /\ alu2' = FALSE
    /\ issued' = <<>>
    /\ fus_op' = "cycle"
    /\ UNCHANGED <<issued_mul, has_alu2, other_than_fus>>

cycle ==
    /\ alu' = issued_mul
    /\ mul' = FALSE
    /\ branch' = issued_mul
    /\ ldu' = FALSE
    /\ stu' = FALSE
    /\ alu2' = FALSE
    /\ issued_mul' = FALSE
    /\ issued' = <<>>
    /\ fus_op' = "cycle"
    /\ UNCHANGED <<has_alu2, other_than_fus>>

\* the FusBusy a Model constructs with issue=1: FusBusy(False)
FusConstructed ==
    /\ has_alu2 = FALSE
    /\ alu = FALSE
    /\ mul = FALSE
    /\ branch = FALSE
    /\ ldu = FALSE
    /\ stu = FALSE
    /\ alu2 = FALSE
    /\ issued_mul = FALSE
    /\ issued = <<>>
    /\ fus_op = "init"

(***************************************************************************)
(* main: the run over a loaded trace.  load_file keeps the lines that      *)
(* match re_instr; filter_timed_part keeps the timed part; print_stats     *)
(* counts its cycles and prints.                                           *)
(***************************************************************************)
\* longest trace loaded
MaxTrace == 5
\* commit cycles of the trace are 0..MaxCycle
MaxCycle == 2

\* the digits filter_timed_part looks for in an instruction's hex_code
MarkerCode == <<"3", "2", "9", "5", "1", "0", "7", "3">>

\* the hex codes of the trace, as re_instr captures them: the marker and a nop
HexCodes ==
    { <<"0", "x">> \o MarkerCode,
      <<"0", "x", "0", "0", "0", "0", "0", "0", "1", "3">> }

\* Python's `needle in text` on strings
contains(text, needle) ==
    \E i \in 0..(Len(text) - Len(needle)) :
        SubSeq(text, i + 1, i + Len(needle)) = needle

\* the traces load_file can leave in model.instr_queue: the log is in commit
\* order, so the cycles (decimal strings, read with int()) never decrease
Traces ==
    UNION { { [i \in 1..n |-> [hex_code |-> codes[i], cycle |-> cycles[i]]] :
                codes \in [1..n -> HexCodes],
                cycles \in { c \in [1..n -> 0..MaxCycle] :
                               \A i \in 1..n, j \in 1..n : i <= j => c[i] <= c[j] } } :
            n \in 0..MaxTrace }

\* Model.__init__: nothing loaded, main not running
MainConstructed ==
    /\ all_instructions = <<>>
    /\ pos = 0
    /\ accepting = FALSE
    /\ filtered = <<>>
    /\ n_cycles = None
    /\ printed = <<>>
    /\ pc = "constructed"

\* main after load_file, entering filter_timed_part
MainInit ==
    /\ all_instructions \in Traces
    /\ pos = 0
    /\ accepting = FALSE
    /\ filtered = <<>>
    /\ n_cycles = None
    /\ printed = <<>>
    /\ pc = "filter_timed_part"

\* a loop body that also keeps the marker instruction that opens the region
filter_iterate_keeps_marker ==
    /\ pc = "filter_timed_part"
    /\ pos < Len(all_instructions)
    /\ LET instr == all_instructions[pos + 1]
           toggled == IF contains(instr.hex_code, MarkerCode)
                        THEN ~accepting ELSE accepting
       IN  /\ accepting' = toggled
           /\ filtered' = IF toggled THEN Append(filtered, instr) ELSE filtered
    /\ pos' = pos + 1
    /\ UNCHANGED <<all_instructions, n_cycles, printed, pc, other_than_main>>

\* filter_timed_part: one iteration of `for instr in all_instructions`
filter_iterate ==
    /\ pc = "filter_timed_part"
    /\ pos < Len(all_instructions)
    /\ LET instr == all_instructions[pos + 1]
       IN  IF contains(instr.hex_code, MarkerCode)
             THEN /\ accepting' = ~accepting
                  /\ filtered' = filtered
             ELSE /\ accepting' = accepting
                  /\ filtered' = IF accepting THEN Append(filtered, instr)
                                              ELSE filtered
    /\ pos' = pos + 1
    /\ UNCHANGED <<all_instructions, n_cycles, printed, pc, other_than_main>>

\* filter_timed_part: the loop is over, `return filtered` to main
filter_return ==
    /\ pc = "filter_timed_part"
    /\ pos = Len(all_instructions)
    /\ pc' = "print_stats"
    /\ UNCHANGED <<all_instructions, pos, accepting, filtered, n_cycles, printed,
                   other_than_main>>

\* count_cycles, for a non-empty list
count_cycles(retired) == retired[Len(retired)].cycle - retired[1].cycle

\* print_stats: retired[0] of an empty list raises IndexError; the cycle
\* number is printed before 1000000 / n_cycles is evaluated, which raises
\* ZeroDivisionError when n_cycles is 0
print_stats ==
    /\ pc = "print_stats"
    /\ IF filtered = <<>>
         THEN /\ pc' = "IndexError"
              /\ UNCHANGED <<n_cycles, printed>>
         ELSE /\ n_cycles' = count_cycles(filtered)
              /\ IF n_cycles' = 0
                   THEN /\ printed' = <<"cycle number">>
                        /\ pc' = "ZeroDivisionError"
                   ELSE /\ printed' = <<"cycle number", "Coremark/MHz",
                                        "instruction number">>
                        /\ pc' = "done"
    /\ UNCHANGED <<all_instructions, pos, accepting, filtered, other_than_main>>

(***************************************************************************)
(* Specifications: one per tracker, the other trackers as constructed      *)
(***************************************************************************)
InitIq ==
    IqInit /\ RasConstructed /\ BhtConstructed /\ FusConstructed /\ MainConstructed

NextIq == fetch \/ flush \/ jump \/ \E instr \in IqInstrs : remove(instr)

SpecIq == InitIq /\ [][NextIq]_vars

InitRas ==
    RasInit /\ IqConstructed /\ BhtConstructed /\ FusConstructed /\ MainConstructed

NextRas ==
    \/ \E addr \in RasAddrs : push(addr)
    \/ drop
    \/ read
    \/ \E instr \in RasInstrs : resolve(instr)

SpecRas == InitRas /\ [][NextRas]_vars

InitBht ==
    BhtInit /\ IqConstructed /\ RasConstructed /\ FusConstructed /\ MainConstructed

NextBht ==
    \/ \E addr \in BhtAddrs : predict(addr)
    \/ \E addr \in BhtAddrs, taken \in BOOLEAN : bht_resolve(addr, taken)

SpecBht == InitBht /\ [][NextBht]_vars

InitFus ==
    FusInit /\ IqConstructed /\ RasConstructed /\ BhtConstructed /\ MainConstructed

NextFus == cycle \/ \E instr \in FuInstrs : issue(instr)

SpecFus == InitFus /\ [][NextFus]_vars

NextFusProtocol == cycle \/ \E instr \in FuInstrs : issue_when_ready(instr)

SpecFusProtocol == InitFus /\ [][NextFusProtocol]_vars

\* the run of main, the trackers of its Model as constructed
InitMain ==
    MainInit /\ IqConstructed /\ RasConstructed /\ BhtConstructed /\ FusConstructed

NextMain == filter_iterate \/ filter_return \/ print_stats

SpecMain == InitMain /\ [][NextMain]_vars

(***************************************************************************)
(* Claims                                                                  *)
(***************************************************************************)
\* C1: the buffered length of the instruction queue is never negative
C1_LenNonNegative == len >= 0

\* the step is the call c on the return address stack
RasCalled(c) == ras_hist' = Keep3(Append(ras_hist, c))

\* what read() can return
RasValues == RasAddrs \cup {next_addr(instr) : instr \in RasInstrs} \cup {None}

\* the last n entries of s
KeepLast(s, n) == IF Len(s) > n THEN SubSeq(s, Len(s) - n + 1, Len(s)) ELSE s

\* C2: a Ras constructed with depth d holds at most d-1 addresses, and a push
\* leaves the d-1 most recent entries of the stack with the address appended:
\* on overflow exactly the oldest entry is evicted; a drop takes only the most
\* recent entry and a read takes none
C2_RasBounded ==
    /\ [](Len(stack) <= ras_d - 1)
    /\ [][/\ \A a \in RasAddrs :
               RasCalled(Call("push", a)) =>
                   stack' = KeepLast(Append(stack, a), ras_d - 1)
          /\ RasCalled(Call("drop", None)) =>
               stack' = SubSeq(stack, 1, Len(stack) - 1)
          /\ \A v \in RasValues :
               RasCalled(Call("read", v)) => stack' = stack]_vars

\* a stack of depth 3 that was given three addresses and lost the oldest
C2_Witness ==
    /\ ras_d = 3
    /\ ras_hist = <<Call("push", 2), Call("push", 4), Call("push", 2)>>
    /\ stack = <<4, 2>>

\* the last three calls were push(a), drop() and read()
PushDropRead(a) ==
    /\ Len(ras_hist) = 3
    /\ ras_hist[1] = Call("push", a)
    /\ ras_hist[2] = Call("drop", None)
    /\ ras_hist[3].op = "read"

\* C3 as stated: for any depth, push(a), drop(), read() returns a
C3_PushDropRead_AnyDepth ==
    \A a \in RasAddrs : PushDropRead(a) => ras_hist[3].arg = a

\* C3: for a depth of at least 2, push(a) then drop() then read() returns a
C3_PushDropRead ==
    \A a \in RasAddrs : (ras_d >= 2 /\ PushDropRead(a)) => ras_hist[3].arg = a

\* push, drop, read on a stack that held another address already
C3_Witness ==
    /\ ras_d >= 3
    /\ PushDropRead(4)
    /\ ras_hist[3].arg = 4
    /\ stack = <<2>>

\* the step pops an address off a stack that holds one
SuccessfulDrop ==
    /\ stack # <<>>
    /\ \/ RasCalled(Call("drop", None))
       \/ RasCalled(Call("resolve_ret", None))
       \/ RasCalled(Call("resolve_ret_call", None))

\* C4: drop() on an empty stack sets last_dropped to None and leaves the stack
\* empty; while last_dropped is None, it stays None and read() returns None
\* until a drop finds an address on the stack
C4_DropEmpty ==
    [][/\ (RasCalled(Call("drop", None)) /\ stack = <<>>) =>
            (last_dropped' = None /\ stack' = <<>>)
       /\ (last_dropped = None /\ ~SuccessfulDrop) =>
            /\ last_dropped' = None
            /\ \A v \in RasValues : RasCalled(Call("read", v)) => v = None]_vars

\* address 2 was pushed and dropped, then drop() found the stack empty
C4_Witness ==
    /\ ras_d = 2
    /\ ras_hist = <<Call("push", 2), Call("drop", None), Call("drop", None)>>
    /\ stack = <<>>
    /\ last_dropped = None

\* the slot of the table an address belongs to
Slot(addr) == (addr \div 2) % table_size

\* C5: every counter stays in 0..3 and moves by at most one per resolve; after
\* four resolve(addr, taken) in a row the counter of addr's slot is 3 and
\* predict(addr) is taken, after four not-taken in a row it is 0 and predict is
\* not-taken
C5_Saturation ==
    /\ [](/\ \A i \in DOMAIN contents : contents[i].sat_counter \in 0..3
          /\ (bht_last.call.op = "resolve" /\ bht_last.n >= 4) =>
                LET a == bht_last.call.addr
                IN  IF bht_last.call.taken
                    THEN contents[Slot(a)].sat_counter = 3
                         /\ predict_value(a) = "taken"
                    ELSE contents[Slot(a)].sat_counter = 0
                         /\ predict_value(a) = "not_taken")
    /\ [][\A i \in DOMAIN contents :
            contents'[i].sat_counter - contents[i].sat_counter \in {-1, 0, 1}]_vars

\* four taken resolutions in a row of an address whose slot is saturated
C5_Witness ==
    /\ bht_last.call.op = "resolve"
    /\ bht_last.call.taken
    /\ bht_last.n >= 4
    /\ contents[Slot(bht_last.call.addr)].sat_counter = 3

\* the step is the call c on the table
BhtCalled(c) == bht_last'.call = c /\ bht_last' # bht_last

\* C6: predict(addr) returns unknown iff no resolve was ever applied to the slot
\* (addr >> 1) mod table_size, and taken iff that slot was resolved and its
\* counter is >= 2; a slot once resolved stays resolved; predict leaves the
\* table as it is and resolve changes only the indexed slot
C6_Predict ==
    /\ [](\A a \in BhtAddrs :
            /\ predict_value(a) = "unknown" <=> Slot(a) \notin bht_trained
            /\ predict_value(a) = "taken" <=>
                 (Slot(a) \in bht_trained /\ contents[Slot(a)].sat_counter >= 2)
            /\ (bht_last.call = BhtCall("predict", a, FALSE, bht_last.call.res)) =>
                 bht_last.call.res = predict_value(a))
    /\ [][/\ bht_trained \subseteq bht_trained'
          /\ \A a \in BhtAddrs :
               /\ (\E r \in {"taken", "not_taken", "unknown"} :
                      BhtCalled(BhtCall("predict", a, FALSE, r))) =>
                    contents' = contents
               /\ (\E t \in BOOLEAN : BhtCalled(BhtCall("resolve", a, t, "none"))) =>
                    \A i \in DOMAIN contents :
                       i # Slot(a) => contents'[i] = contents[i]]_vars

\* in a table of two entries, predict(4) answers taken through slot 0, the only
\* slot resolve was applied to
C6_Witness ==
    /\ table_size = 2
    /\ bht_last.call = BhtCall("predict", 4, FALSE, "taken")
    /\ bht_trained = {0}
    /\ contents[1].valid = FALSE

\* the unit fu was issued to since the last cycle()
Issued(fu) == \E i \in 1..Len(issued) : issued[i] = fu

\* the step is a successful issue to the unit fu
IsIssueOf(fu) == fus_op' = "issue" /\ issued' = Append(issued, fu)

\* C7: once a BRANCH is issued the store unit is not ready until cycle() is
\* called, and it is ready right after that cycle()
C7_BranchBlocksStore ==
    /\ [](Issued("BRANCH") => ~is_ready("STU"))
    /\ [][(Issued("BRANCH") /\ fus_op' = "cycle") => is_ready("STU")']_vars

\* a branch and later issues in the same cycle, the store unit still busy
C7_Witness ==
    /\ issued = <<"BRANCH", "MUL", "LDU">>
    /\ ~is_ready("STU")

AllFree == ~alu /\ ~mul /\ ~branch /\ ~ldu /\ ~stu /\ ~alu2

\* the step is a call of issue for an ALU-class instruction
AluAttempt == fus_op' = "assert" \/ IsIssueOf("ALU")

\* C8 as stated: with ALU2 and all units free, two ALU-class issues in the same
\* cycle both succeed; the first occupies ALU, the second occupies ALU2
C8_FirstAluOccupiesAlu ==
    [][has_alu2 =>
         /\ (AllFree /\ AluAttempt) =>
               (fus_op' = "issue" /\ alu' /\ ~alu2')
         /\ (issued = <<"ALU">> /\ alu # alu2 /\ ~mul /\ ~ldu /\ ~stu /\ AluAttempt) =>
               (fus_op' = "issue" /\ alu' /\ alu2')]_vars

\* C8: with ALU2 and all units free, two ALU-class issues in the same cycle both
\* succeed; the first occupies ALU2 alone, the second occupies ALU (and BRANCH)
C8_TwoAluIssues ==
    [][has_alu2 =>
         /\ (AllFree /\ AluAttempt) =>
               (fus_op' = "issue" /\ alu2' /\ ~alu' /\ ~branch')
         /\ (issued = <<"ALU">> /\ alu2 /\ ~alu /\ ~branch /\ AluAttempt) =>
               (fus_op' = "issue" /\ alu' /\ branch' /\ alu2')]_vars

\* two ALU-class instructions issued in one cycle
C8_Witness ==
    /\ has_alu2
    /\ issued = <<"ALU", "ALU">>
    /\ fus_op = "issue"
    /\ alu /\ alu2
    /\ ~mul /\ ~ldu /\ ~stu

\* C9 as stated: an issue to a unit that is not ready raises and changes no flag
C9_IssueBusyAsserts ==
    [][\A fu \in Fu :
         (~is_ready(fu) /\ issued' # issued /\ issued' = Append(issued, fu)) =>
            (fus_op' = "assert" /\ UNCHANGED fus_flags)]_vars

\* C10: cycle() clears every flag, except that ALU and BRANCH are left busy iff
\* a MUL was issued since the previous cycle(): then BRANCH is not ready and ALU
\* is ready only through ALU2; the multiply-issued flag is cleared, so a cycle()
\* with no MUL issued since the one before leaves every unit ready
C10_Cycle ==
    [][fus_op' = "cycle" =>
         /\ alu' = Issued("MUL")
         /\ branch' = Issued("MUL")
         /\ ~mul' /\ ~ldu' /\ ~stu' /\ ~alu2' /\ ~issued_mul'
         /\ Issued("MUL") =>
               (~is_ready("BRANCH")' /\ (is_ready("ALU")' <=> has_alu2))
         /\ ~Issued("MUL") => \A fu \in Fu : is_ready(fu)']_vars

\* the cycle after a multiply: ALU and BRANCH held busy, nothing else
C10_Witness ==
    /\ fus_op = "cycle"
    /\ issued = <<>>
    /\ alu /\ branch
    /\ ~mul /\ ~ldu /\ ~stu /\ ~alu2 /\ ~issued_mul

\* no instruction of the model is in the queue
NothingBuffered == \A instr \in IqInstrs : ~has(instr)

\* C11: has(instr) holds only when the buffered length is at least the size of
\* instr, and at least size + fetch_size - 2 for an uncompressed instruction at
\* offset fetch_size - 2 of a fetch word; after flush() has(instr) is false for
\* every instruction, and stays false until fetch() is called
C11_Has ==
    /\ [](/\ \A instr \in IqInstrs :
               has(instr) =>
                  /\ len >= instr.size
                  /\ (instr.size = 4 /\ instr.address % fetch_size = fetch_size - 2) =>
                        len >= instr.size + fetch_size - 2
          /\ iq_op = "flush" => NothingBuffered)
    /\ [][(NothingBuffered /\ iq_op' # "fetch") => NothingBuffered']_vars

\* a flushed queue of fetch width 8
C11_Witness ==
    /\ iq_op = "flush"
    /\ fetch_size = 8
    /\ len = 0
    /\ NothingBuffered

\* the step is a call of jump()
JumpCalled == iq_op' = "jump"

\* what the parts of C17 share: jump() subtracts a fetch-width chunk (and the
\* truncation) exactly when a fetch is pending, and clears the pending mark,
\* which only fetch() sets; at most one chunk is subtracted between two fetch();
\* a jump() directly after flush() changes nothing
JumpPenalty ==
    /\ [](iq_paid <= 1)
    /\ [][/\ JumpCalled =>
               /\ ~new_fetch'
               /\ IF new_fetch
                  THEN len - len' \in fetch_size..(2 * fetch_size - 1)
                  ELSE len - len' \in 0..(fetch_size - 1)
          /\ (new_fetch' /\ ~new_fetch) => iq_op' = "fetch"
          /\ (iq_op = "flush" /\ JumpCalled) => len' = len]_vars

\* C17 as stated: a second jump() with no fetch() since the first leaves len
\* unchanged
C17_SecondJumpKeepsLen ==
    /\ JumpPenalty
    /\ [][(iq_jumped /\ JumpCalled) => len' = len]_vars

\* C17: a second jump() with no fetch() since the first subtracts no fetch-width
\* chunk: it removes less than fetch_size bytes, and nothing when it directly
\* follows a jump()
C17_JumpPenalty ==
    /\ JumpPenalty
    /\ [][/\ (iq_jumped /\ JumpCalled) => len - len' \in 0..(fetch_size - 1)
          /\ (iq_op = "jump" /\ JumpCalled) => len' = len]_vars

\* a jump() that paid the chunk, with bytes left in the queue
C17_Witness ==
    /\ iq_op = "jump"
    /\ iq_paid = 1
    /\ ~new_fetch
    /\ len > 0

\* C18: _truncate(index) removes 0..fetch_size-1 bytes, leaves (len + index)
\* mod fetch_size = 0, and removes nothing when applied again; after remove of
\* an instruction that is no jump (len + next_addr) mod fetch_size = 0, after
\* jump() and after remove of a jump len mod fetch_size = 0
C18_Truncate ==
    /\ \A idx \in 0..(fetch_size - 1) :
          LET t == truncate(len, idx)
          IN  /\ len - t \in 0..(fetch_size - 1)
              /\ (t + idx) % fetch_size = 0
              /\ truncate(t, idx) = t
    /\ iq_op = "jump" => len % fetch_size = 0
    /\ iq_op = "remove" =>
          IF iq_instr.is_jump
          THEN len % fetch_size = 0
          ELSE (len + iq_instr.address + iq_instr.size) % fetch_size = 0

\* an instruction removed in the middle of a fetch word of 8 bytes
C18_Witness ==
    /\ iq_op = "remove"
    /\ ~iq_instr.is_jump
    /\ fetch_size = 8
    /\ iq_instr.address = 2
    /\ iq_instr.size = 2
    /\ len = 12

\* the step is resolve(instr) of an instruction of the named class
ResolveCalled(name) == RasCalled(Call(name, None))

\* the return addresses of the instructions resolve is given
ReturnAddrs == {instr.address + instr.size : instr \in RasInstrs}

\* a stack without its top, and its top
Front(s) == SubSeq(s, 1, Len(s) - 1)

TopOrNone(s) == IF s = <<>> THEN None ELSE s[Len(s)]

C16_ReadStable ==
    /\ [](\A i \in 1..Len(ras_hist), j \in 1..Len(ras_hist) :
            (/\ i < j
             /\ ras_hist[i].op = "read"
             /\ ras_hist[j].op = "read"
             /\ \A k \in (i + 1)..(j - 1) : ras_hist[k].op \in {"push", "read"}) =>
                ras_hist[i].arg = ras_hist[j].arg)
    /\ [][/\ \A v \in RasValues :
               RasCalled(Call("read", v)) =>
                   (v = last_dropped /\ stack' = stack /\ last_dropped' = last_dropped)
          /\ \A a \in RasAddrs :
               RasCalled(Call("push", a)) => last_dropped' = last_dropped
          /\ RasCalled(Call("drop", None)) => last_dropped' = TopOrNone(stack)]_vars

\* two reads of the dropped address 2 around a push
C16_Witness ==
    /\ ras_d = 2
    /\ ras_hist = <<Call("read", 2), Call("push", 4), Call("read", 2)>>
    /\ stack = <<4>>
    /\ last_dropped = 2

\* how many instructions were issued to the unit fu since the last cycle()
IssuedCount(fu) == Cardinality({i \in 1..Len(issued) : issued[i] = fu})

\* C19: when issue(instr) is called only while is_ready_for(instr) holds, the
\* assertion `not self.alu` of issue_alu never fails, with or without ALU2
C19_AssertNeverFails == fus_op # "assert"

\* without ALU2: an ALU-class instruction issued to the free ALU
C19_WitnessNoAlu2 ==
    /\ ~has_alu2
    /\ issued = <<"MUL", "ALU">>
    /\ fus_op = "issue"
    /\ alu /\ branch

\* C20: when issue(instr) is called only while is_ready_for(instr) holds, a
\* cycle issues at most one load or store, at most one MUL, at most one BRANCH
\* and at most one ALU-class instruction (two with ALU2); without ALU2 it never
\* issues both an ALU-class instruction and a BRANCH
C20_Capacity ==
    /\ IssuedCount("LDU") + IssuedCount("STU") <= 1
    /\ IssuedCount("MUL") <= 1
    /\ IssuedCount("BRANCH") <= 1
    /\ IssuedCount("ALU") <= (IF has_alu2 THEN 2 ELSE 1)
    /\ ~has_alu2 => ~(Issued("ALU") /\ Issued("BRANCH"))

\* a full cycle with ALU2: two ALU-class instructions, a multiply and a load
C20_Witness ==
    /\ has_alu2
    /\ IssuedCount("ALU") = 2
    /\ IssuedCount("MUL") = 1
    /\ IssuedCount("LDU") = 1
    /\ Len(issued) = 4

\* under the protocol no cycle issues more than four instructions
ProtocolIssuesAtMostFour == Len(issued) <= 4

\* the positions of the trace that hold a marker instruction
MarkerAt == {i \in 1..Len(all_instructions) :
               contains(all_instructions[i].hex_code, MarkerCode)}

\* how many marker instructions come before position i
MarkersBefore(i) == Cardinality({j \in MarkerAt : j < i})

\* the instructions of the trace at the positions of I, in trace order
RECURSIVE InstructionsAt(_, _)
InstructionsAt(I, n) ==
    IF n = 0 THEN <<>>
    ELSE IF n \in I THEN Append(InstructionsAt(I, n - 1), all_instructions[n])
    ELSE InstructionsAt(I, n - 1)

\* the positions strictly between the first and the second marker
BetweenFirstAndSecond ==
    {i \in 1..Len(all_instructions) :
       /\ i \notin MarkerAt
       /\ MarkersBefore(i) = 1
       /\ \E j \in MarkerAt : j > i}

\* the positions of the non-marker instructions that an odd number of
\* markers precede
InsideTimedRegion ==
    {i \in 1..Len(all_instructions) :
       i \notin MarkerAt /\ MarkersBefore(i) % 2 = 1}

Returned == pc # "filter_timed_part" /\ pc # "constructed"

\* C12 as stated: whatever the number and placement of the markers (two at
\* least, for a second one to exist), filter_timed_part returns exactly the
\* instructions strictly between the first and the second marker
C12_BetweenFirstTwo ==
    (Returned /\ Cardinality(MarkerAt) >= 2) =>
        filtered = InstructionsAt(BetweenFirstAndSecond, Len(all_instructions))

\* C12: every marker toggles the timed region: filter_timed_part returns, in
\* trace order, exactly the non-marker instructions that an odd number of
\* markers precede; in a trace with exactly two markers these are the
\* instructions strictly between the two, and never a marker instruction
C12_Toggle ==
    Returned =>
        /\ filtered = InstructionsAt(InsideTimedRegion, Len(all_instructions))
        /\ Cardinality(MarkerAt) = 2 =>
             filtered = InstructionsAt(BetweenFirstAndSecond, Len(all_instructions))
        /\ \A k \in 1..Len(filtered) : ~contains(filtered[k].hex_code, MarkerCode)

\* an instruction before the first marker, one between the two markers and
\* one after the second: only the middle one is returned
C12_Witness ==
    /\ Returned
    /\ Len(all_instructions) = 5
    /\ MarkerAt = {2, 4}
    /\ filtered = <<all_instructions[3]>>

\* the run ended on an exception
Raised == pc \in {"IndexError", "ZeroDivisionError"}

\* C13: a run over a trace with fewer than two markers, or with fewer than
\* two instructions in the timed region, never raises an error and never
\* computes or prints a cycle count
C13_InsufficientReported ==
    (Returned /\ (Cardinality(MarkerAt) < 2 \/ Len(filtered) < 2)) =>
        /\ ~Raised
        /\ n_cycles = None
        /\ printed = <<>>

====
